---- MODULE Spec2Model ----
(***************************************************************************)
(* Land-cover change detection (ChangeDetection.py): the combined-code     *)
(* raster built by change_rast, the six-class reclassification of          *)
(* change_summary and the target collapse of change_to_from.               *)
(*                                                                         *)
(* A raster is represented by its attribute table.  The two land-cover     *)
(* rasters are sequences of <<Value, CoverClass>> rows in ascending Value  *)
(* order; the change raster carries one row per combined code that occurs  *)
(* in some pixel, with the number of those pixels in Count.                *)
(***************************************************************************)
EXTENDS Integers, Sequences, FiniteSets, TLC

VARIABLES
    nlcd_t1,    \* attribute table of the time-1 raster: <<Value, CoverClass>> rows
    nlcd_t2,    \* attribute table of the time-2 raster
    cls,        \* change_rast: list of all [code, t1 row, t2 row] combinations
    chg_rast,   \* attribute table of the change raster
    start_cls,  \* argument of change_summary / change_to_from
    end_cls,    \* argument of change_summary
    backwards,  \* argument of change_summary
    tmp_tab,    \* the reclassification table "tmp_tab"
    out_rast,   \* attribute table of the output raster
    pixels,     \* pixel count of each <<time-1 class, time-2 class>> pair
    cellSize,   \* cell size of the time-1 raster, in metres
    pc          \* which function has run: "start", "changed", "summarized",
                \* "collapsed"; how one stopped: "IndexError" and
                \* "ExecuteError" (change_rast), "ValueError" (change_to_from);
                \* or "reused": the restarted loop found the change raster

\* Helper.CleanFeatures
VARIABLES
    inFeats,    \* the input features: the number of parts of each polygon,
                \* 0 for a null geometry
    outFeats,   \* the output feature class, and the tool that wrote it
    counter,    \* the loop counter of CleanFeatures
    attempts,   \* calls of MultipartToSinglepart made so far
    copies,     \* calls of CopyFeatures made so far
    cleanPc     \* "idle", "loop", "returned", or "raised"

\* clipNLCD.main
VARIABLES
    folder,     \* the files of nlcd_folder: [prod, year, ver, ext] per file name
    gdb,        \* the clipped rasters that exist: <<prefix, year>> names
    patIdx,     \* the pattern the outer loop is at
    zfiles,     \* the zips of the pattern still to do, the current one first
    clipPc      \* "idle", "list", "next", "extract", "clip", "remove",
                \* "done", or "raised"

\* LandscapeChange.main
VARIABLES
    out_gdb,    \* the rasters that exist in the output geodatabase, by name
    nlcd_rasts, \* the years of the land-cover rasters, in list order
    yearIdx,          \* the index the loop is at, from 1
    outRast,    \* the variable outRast: the name made in the last iteration
    calls,      \* the calls of reclassBarren made so far, as
                \* [ref, schema, inRast, outRast] records
    mainPc      \* "idle", "barren", "general", "summary", or "raised"

\* LandscapeChange.tabLcTypes
VARIABLES
    rasterList, \* the rasters, as [name, tab], tab their attribute table:
                \* Value -> (field -> value)
    tab_c,      \* the counter c
    tab_y,      \* the list of years y
    tab_sum,    \* the total pixel count sum, NULL before it is read
    sumTab,     \* the summary table: Value -> (field -> value)
    tabPc       \* "idle", "loop", "finished", "IndexError" or "ExecuteError"

\* LandscapeChange.reclassBarren
VARIABLES
    refRast,    \* the reference raster: one row of cells, a class or NoData
    schema,     \* the schema of the reference raster, '1992' or not
    inRast,     \* the raster to reclassify, one row of cells
    outBarren,  \* the raster written to outRast, <<>> before it is written
    barPc       \* "idle", "finished" or "ExecuteError"

\* the variables of ChangeDetection.py
cdVars == <<nlcd_t1, nlcd_t2, cls, chg_rast, start_cls, end_cls, backwards,
            tmp_tab, out_rast, pixels, cellSize, pc>>

cleanVars == <<inFeats, outFeats, counter, attempts, copies, cleanPc>>

clipVars == <<folder, gdb, patIdx, zfiles, clipPc>>

\* the variables of the other scripts, which ChangeDetection.py leaves alone
mainVars == <<out_gdb, nlcd_rasts, yearIdx, outRast, calls, mainPc>>

tabVars == <<rasterList, tab_c, tab_y, tab_sum, sumTab, tabPc>>

barVars == <<refRast, schema, inRast, outBarren, barPc>>

libVars == <<cleanVars, clipVars, mainVars, tabVars, barVars>>

vars == <<cdVars, libVars>>

----------------------------------------------------------------------------
(* Bounds of the model *)

\* most classes in one land-cover raster
MaxCats == 2

\* most entries in start_cls and in end_cls
MaxCls == 2

\* the multiplier of the combined code
BASE == 100

\* a numeric field added by AddField and not yet calculated (no class value)
NULL == -9999

\* a text field not yet calculated
NullText == "<Null>"

\* a Float field not yet calculated; a calculated one is <<numerator,
\* denominator>>, the exact quotient before rounding to the field
NullFloat == <<>>

\* Class-value schemes the two rasters and the class lists are drawn from:
\* one-digit general classes, classes of mixed width with one above the
\* two-digit range, and classes with a negative (no-data) value.
Schemes == { {2, 4, 7, 9}, {0, 1, 11, 100}, {-1, 0, 1, 99} }

\* single-class rasters over the whole two-digit range and its two neighbours
RangeValues == (0 - 1) .. BASE

----------------------------------------------------------------------------
(* Python and table helpers *)

\* x in lst
In(x, lst) == \E k \in 1..Len(lst) : lst[k] = x

Range(lst) == { lst[k] : k \in 1..Len(lst) }

Min(S) == CHOOSE x \in S : \A y \in S : x <= y

\* the elements of a set of integers in ascending order
RECURSIVE Ascending(_)
Ascending(S) ==
    IF S = {} THEN <<>> ELSE <<Min(S)>> \o Ascending(S \ {Min(S)})

\* the CoverClass name stored with a class value
CoverClass(v) == "class" \o ToString(v)

\* the attribute table of a land-cover raster holding the classes S
ClassTable(S) == [k \in 1..Cardinality(S) |->
                    <<Ascending(S)[k], CoverClass(Ascending(S)[k])>>]

\* the SearchCursor list comprehension [[a[0], a[1]] for a in ...]
SearchCursor(tab) == [k \in 1..Len(tab) |-> <<tab[k][1], tab[k][2]>>]

----------------------------------------------------------------------------
(* change_rast *)

\* a combined code built with a multiplier of one digit
CombinedCodeOneDigit(t1, t2) == (t1 * 10) + t2

\* Int((t1*100) + t2), and int(c[0]*100) + int(i[0])
CombinedCode(t1, t2) == (t1 * BASE) + t2

\* for c in cls_t1: [cls.append([code, c, i]) for i in cls_t2]
AllCombinations(cls_t1, cls_t2) ==
    [k \in 1..(Len(cls_t1) * Len(cls_t2)) |->
        LET c == cls_t1[((k - 1) \div Len(cls_t2)) + 1]
            i == cls_t2[((k - 1) % Len(cls_t2)) + 1]
        IN  <<CombinedCode(c[1], i[1]), c, i>>]

\* the sum of f over the finite set S
RECURSIVE SumOver(_, _)
SumOver(f, S) ==
    IF S = {} THEN 0
    ELSE LET x == CHOOSE y \in S : TRUE IN f[x] + SumOver(f, S \ {x})

\* the Value rows of the raster calculated from the pixels of the two rasters
RasterValues(px) ==
    { CombinedCode(p[1], p[2]) : p \in { q \in DOMAIN px : px[q] > 0 } }

\* the Count of a Value row: the pixels whose pair has that combined code
RasterCount(px, value) ==
    SumOver(px, { p \in DOMAIN px : CombinedCode(p[1], p[2]) = value })

\* the sum of the Count field over the rows of a table
RECURSIVE TotalCells(_)
TotalCells(tab) ==
    IF Len(tab) = 0 THEN 0 ELSE tab[1].Count + TotalCells(Tail(tab))

\* [i for i in cls if i[0] == r[0]][0]
FirstMatch(lst, value) ==
    lst[Min({ k \in 1..Len(lst) : lst[k][1] = value })]

\* a row of the saved change raster after BuildRasterAttributeTable and the
\* AddField calls: Value and Count, the added fields empty
BuiltRow(px, value) ==
    [Value            |-> value,
     Count            |-> RasterCount(px, value),
     start_class      |-> NULL,
     start_class_name |-> NullText,
     end_class        |-> NULL,
     end_class_name   |-> NullText,
     change_type      |-> NullText,
     area_ha          |-> NullFloat,
     perc_total       |-> NullFloat]

\* the loop body with its comparison of the two classes inverted
ChangeRowInverted(lst, r) ==
    LET v == FirstMatch(lst, r.Value)
    IN  [r EXCEPT !.start_class      = v[2][1],
                  !.start_class_name = v[2][2],
                  !.end_class        = v[3][1],
                  !.end_class_name   = v[3][2],
                  !.change_type      = IF v[2][1] = v[3][1]
                                       THEN v[2][2] \o " to " \o v[3][2]
                                       ELSE "No change"]

\* the body of the UpdateCursor loop on row r
ChangeRow(lst, r) ==
    LET v == FirstMatch(lst, r.Value)
    IN  [r EXCEPT !.start_class      = v[2][1],
                  !.start_class_name = v[2][2],
                  !.end_class        = v[3][1],
                  !.end_class_name   = v[3][2],
                  !.change_type      = IF v[2][1] # v[3][1]
                                       THEN v[2][2] \o " to " \o v[3][2]
                                       ELSE "No change"]

\* the rows on which [i for i in cls if i[0] == r[0]][0] raises IndexError
NoMatch(lst, tab) ==
    { k \in 1..Len(tab) : \A i \in 1..Len(lst) : lst[i][1] # tab[k].Value }

\* the table when the UpdateCursor loop stopped at row `stop`: the rows
\* before it were written by updateRow
CursorUpTo(lst, tab, stop) ==
    [k \in 1..Len(tab) |-> IF k < stop THEN ChangeRow(lst, tab[k]) ELSE tab[k]]

\* CalculateField "(!Count! * 900) / 10000"
AreaHa(count) == <<count * 900, 10000>>

\* the quotient without its factor of 100
Fraction(count, total_cells) == <<count, total_cells>>

\* CalculateField "(!Count! / <total_cells>) * 100"
Percent(count, total_cells) == <<count * 100, total_cells>>

\* the two CalculateField calls of change_rast over the whole table
ChangeStats(tab) ==
    [k \in 1..Len(tab) |->
        [tab[k] EXCEPT !.area_ha    = AreaHa(tab[k].Count),
                       !.perc_total = Percent(tab[k].Count, TotalCells(tab))]]

change_rast ==
    /\ pc = "start"
    /\ \E cls_t1 \in { SearchCursor(nlcd_t1) } :
       \E cls_t2 \in { SearchCursor(nlcd_t2) } :
       \E lst \in { AllCombinations(cls_t1, cls_t2) } :
       \E values \in { Ascending(RasterValues(pixels)) } :
       \E built \in { [k \in 1..Len(values) |-> BuiltRow(pixels, values[k])] } :
       \E missing \in { NoMatch(lst, built) } :
           /\ cls' = lst
           /\ IF missing = {}
              THEN /\ chg_rast' = ChangeStats(CursorUpTo(lst, built, Len(built) + 1))
                   /\ pc' = "changed"
              ELSE \* the raster is saved and the rows before the failing one written
                   /\ chg_rast' = CursorUpTo(lst, built, Min(missing))
                   /\ pc' = "IndexError"
    /\ UNCHANGED <<nlcd_t1, nlcd_t2, start_cls, end_cls, backwards, tmp_tab,
                   out_rast, pixels, cellSize>>
    /\ UNCHANGED libVars

\* The geoprocessing engine fails inside change_rast: before the raster is
\* saved (stop = 0), in the cursor loop at row `stop`, or in CalculateField
\* after the loop (stop = Len + 1).  What was written before stays on disk.
change_rast_fails ==
    /\ pc = "start"
    /\ \E cls_t1 \in { SearchCursor(nlcd_t1) } :
       \E cls_t2 \in { SearchCursor(nlcd_t2) } :
       \E lst \in { AllCombinations(cls_t1, cls_t2) } :
       \E values \in { Ascending(RasterValues(pixels)) } :
       \E built \in { [k \in 1..Len(values) |-> BuiltRow(pixels, values[k])] } :
       \E stop \in 0..(Len(built) + 1) :
           /\ \A k \in NoMatch(lst, built) : stop <= k
           /\ cls' = IF stop = 0 THEN cls ELSE lst
           /\ chg_rast' = IF stop = 0 THEN chg_rast ELSE CursorUpTo(lst, built, stop)
    /\ pc' = "ExecuteError"
    /\ UNCHANGED <<nlcd_t1, nlcd_t2, start_cls, end_cls, backwards, tmp_tab,
                   out_rast, pixels, cellSize>>
    /\ UNCHANGED libVars

----------------------------------------------------------------------------
(* change_summary *)

\* the names given to the start classes and to the end classes
start_cls_nm == "Forest"
end_cls_nm == "Developed"

\* the chain without its final else: an unmatched row keeps an empty reclass
ReclassNoElse(sc, ec, startc, endc, bw) ==
    LET comb_class == startc \o endc
    IN  IF In(sc, startc) /\ In(ec, startc) THEN 1
        ELSE IF In(sc, startc) /\ In(ec, endc) THEN 2
        ELSE IF In(sc, startc) /\ ~In(ec, comb_class) THEN 3
        ELSE IF In(sc, endc) /\ In(ec, startc) THEN 4
        ELSE IF ~In(sc, comb_class) /\ In(ec, startc)
             THEN (IF bw THEN 5 ELSE 4)
        ELSE NULL

\* the chain with its first two tests in the other order
ReclassSwapped(sc, ec, startc, endc, bw) ==
    LET comb_class == startc \o endc
    IN  IF In(sc, startc) /\ In(ec, endc) THEN 2
        ELSE IF In(sc, startc) /\ In(ec, startc) THEN 1
        ELSE IF In(sc, startc) /\ ~In(ec, comb_class) THEN 3
        ELSE IF In(sc, endc) /\ In(ec, startc) THEN 4
        ELSE IF ~In(sc, comb_class) /\ In(ec, startc)
             THEN (IF bw THEN 5 ELSE 4)
        ELSE 0

\* the chain with the backwards test on the end_cls-to-start_cls branch
ReclassFlagMisplaced(sc, ec, startc, endc, bw) ==
    LET comb_class == startc \o endc
    IN  IF In(sc, startc) /\ In(ec, startc) THEN 1
        ELSE IF In(sc, startc) /\ In(ec, endc) THEN 2
        ELSE IF In(sc, startc) /\ ~In(ec, comb_class) THEN 3
        ELSE IF In(sc, endc) /\ In(ec, startc)
             THEN (IF bw THEN 5 ELSE 4)
        ELSE IF ~In(sc, comb_class) /\ In(ec, startc) THEN 4
        ELSE 0

\* the chain with the end_cls-to-start_cls test moved to the front
ReclassEndFirst(sc, ec, startc, endc, bw) ==
    LET comb_class == startc \o endc
    IN  IF In(sc, endc) /\ In(ec, startc) THEN 4
        ELSE IF In(sc, startc) /\ In(ec, startc) THEN 1
        ELSE IF In(sc, startc) /\ In(ec, endc) THEN 2
        ELSE IF In(sc, startc) /\ ~In(ec, comb_class) THEN 3
        ELSE IF ~In(sc, comb_class) /\ In(ec, startc)
             THEN (IF bw THEN 5 ELSE 4)
        ELSE 0

\* the if / elif chain of the UpdateCursor loop: the reclass value of a row
Reclass(sc, ec, startc, endc, bw) ==
    LET comb_class == startc \o endc
    IN  IF In(sc, startc) /\ In(ec, startc) THEN 1
        ELSE IF In(sc, startc) /\ In(ec, endc) THEN 2
        ELSE IF In(sc, startc) /\ ~In(ec, comb_class) THEN 3
        ELSE IF In(sc, endc) /\ In(ec, startc) THEN 4
        ELSE IF ~In(sc, comb_class) /\ In(ec, startc)
             THEN (IF bw THEN 5 ELSE 4)
        ELSE 0

\* a cursor opened on the change raster itself
CursorOnRaster == "chg_rast"

\* arcpy.da.UpdateCursor("tmp_tab", ...): the table whose rows updateRow writes
CursorTable == "tmp_tab"

\* the rows of the table `name` once the cursor loop has written `rows`
AfterCursor(name, before, rows) == IF name = CursorTable THEN rows ELSE before

\* CopyRows plus AddField: the rows of the change raster with an empty reclass
CopyRows(tab) ==
    [k \in 1..Len(tab) |->
        [Value            |-> tab[k].Value,
         start_class      |-> tab[k].start_class,
         start_class_name |-> tab[k].start_class_name,
         end_class        |-> tab[k].end_class,
         end_class_name   |-> tab[k].end_class_name,
         change_type      |-> tab[k].change_type,
         Count            |-> tab[k].Count,
         area_ha          |-> tab[k].area_ha,
         perc_total       |-> tab[k].perc_total,
         reclass          |-> NULL]]

\* the codeblock with the two labels of class 4 exchanged
fnFlagInverted(val, sn, en, bw) ==
    IF val = 0 THEN "not " \o sn \o " in either time period"
    ELSE IF val = 1 THEN sn \o " in both time periods"
    ELSE IF val = 2 THEN sn \o " to " \o en
    ELSE IF val = 3 THEN sn \o " to non-" \o en \o " class"
    ELSE IF val = 4 THEN (IF bw THEN "non-" \o sn \o " class to " \o sn
                          ELSE en \o " to " \o sn)
    ELSE IF val = 5 THEN "non-" \o en \o " class to " \o sn
    ELSE "None"

\* the codeblock fn(val, sn, en, bw) that names an output class
fn(val, sn, en, bw) ==
    IF val = 0 THEN "not " \o sn \o " in either time period"
    ELSE IF val = 1 THEN sn \o " in both time periods"
    ELSE IF val = 2 THEN sn \o " to " \o en
    ELSE IF val = 3 THEN sn \o " to non-" \o en \o " class"
    ELSE IF val = 4 THEN (IF bw THEN en \o " to " \o sn
                          ELSE "non-" \o sn \o " class to " \o sn)
    ELSE IF val = 5 THEN "non-" \o en \o " class to " \o sn
    ELSE "None"

\* ReclassByTable(chg_rast, tab, "Value", "Value", "reclass"): the values of
\* the output raster, every pixel of the change raster mapped through tab
ReclassByTable(rast, tab) ==
    LET codes == { rast[i].Value : i \in 1..Len(rast) }
    IN  Ascending({ tab[k].reclass :
                      k \in { j \in 1..Len(tab) : tab[j].Value \in codes } })

\* BuildRasterAttributeTable on the output raster: the Count of an output
\* value is the pixels of the change-raster rows mapped to it
RECURSIVE OutCount(_, _, _)
OutCount(rast, tab, value) ==
    IF Len(rast) = 0 THEN 0
    ELSE (IF tab[1].reclass = value THEN rast[1].Count ELSE 0)
         + OutCount(Tail(rast), Tail(tab), value)

\* a view of the table without a where clause
MakeTableViewAll(tab) == tab

\* MakeTableView(out_rast, where_clause="Value IN (1, 2, 3)")
MakeTableView(tab) == SelectSeq(tab, LAMBDA r : r.Value \in {1, 2, 3})

\* the three CalculateField calls of change_summary; perc_of_t1_area is
\* calculated on the rows of the table view only, and on no row when the
\* view is empty
SummaryStats(tab, bw) ==
    [k \in 1..Len(tab) |->
        [Value           |-> tab[k].Value,
         Count           |-> tab[k].Count,
         class           |-> fn(tab[k].Value, start_cls_nm, end_cls_nm, bw),
         area_ha         |-> AreaHa(tab[k].Count),
         perc_of_t1_area |-> IF tab[k].Value \in {1, 2, 3}
                             THEN Percent(tab[k].Count, TotalCells(MakeTableView(tab)))
                             ELSE NullFloat]]

\* the class values of a land-cover raster
Values(tab) == { tab[k][1] : k \in 1..Len(tab) }

\* the class lists a caller can name for the two rasters at hand: up to
\* MaxCls classes of a scheme the rasters belong to
ClassLists ==
    UNION { { S \in SUBSET sch : Cardinality(S) \in 1..MaxCls } :
              sch \in { s \in Schemes : Values(nlcd_t1) \cup Values(nlcd_t2) \subseteq s } }

change_summary ==
    /\ pc \in {"changed", "reused"}
    /\ \E S, E \in ClassLists : \E bw \in BOOLEAN :
         /\ start_cls' = Ascending(S)
         /\ end_cls' = Ascending(E)
         /\ backwards' = bw
         \* each intermediate table is bound once, as a value
         /\ \E copy \in { CopyRows(chg_rast) } :
            \E tab \in { [k \in 1..Len(copy) |->
                           [copy[k] EXCEPT
                              !.reclass = Reclass(copy[k].start_class,
                                                  copy[k].end_class,
                                                  Ascending(S), Ascending(E), bw)]] } :
            \E vals \in { ReclassByTable(chg_rast, tab) } :
                /\ tmp_tab' = AfterCursor("tmp_tab", copy, tab)
                /\ chg_rast' = AfterCursor("chg_rast", chg_rast, tab)
                /\ out_rast' = SummaryStats(
                                  [k \in 1..Len(vals) |->
                                     [Value |-> vals[k],
                                      Count |-> OutCount(chg_rast, tab, vals[k])]], bw)
    /\ pc' = "summarized"
    /\ UNCHANGED <<nlcd_t1, nlcd_t2, cls, pixels, cellSize>>
    /\ UNCHANGED libVars

----------------------------------------------------------------------------
(* change_to_from *)

DigitChars == <<"0", "1", "2", "3", "4", "5", "6", "7", "8", "9">>

\* the decimal digits of a non-negative integer, most significant first
RECURSIVE NatStr(_)
NatStr(n) == IF n < 10 THEN <<DigitChars[n + 1]>>
             ELSE NatStr(n \div 10) \o <<DigitChars[(n % 10) + 1]>>

\* Python str() of an integer, as a sequence of characters
str(n) == IF n < 0 THEN <<"-">> \o NatStr(0 - n) ELSE NatStr(n)

IsDigits(s) == Len(s) > 0 /\ \A k \in 1..Len(s) : In(s[k], DigitChars)

\* whether Python int() accepts the string: digits after an optional sign
IsIntLiteral(s) ==
    \/ IsDigits(s)
    \/ Len(s) > 1 /\ s[1] = "-" /\ IsDigits(Tail(s))

DigitValue(c) == CHOOSE d \in 0..9 : DigitChars[d + 1] = c

RECURSIVE DigitsValue(_)
DigitsValue(s) ==
    IF Len(s) = 0 THEN 0
    ELSE (10 * DigitsValue(SubSeq(s, 1, Len(s) - 1))) + DigitValue(s[Len(s)])

\* Python int() of a string it accepts
int(s) == IF s[1] = "-" THEN 0 - DigitsValue(Tail(s)) ELSE DigitsValue(s)

\* whether the body of the UpdateCursor loop raises ValueError on row r:
\* int() of the concatenated strings is reached and rejects them
RowRaises(r, startc) ==
    LET repl == str(startc[1])
        sc   == r.start_class
        ec   == r.end_class
    IN  IF In(sc, startc)
        THEN ~In(ec, startc) /\ ~IsIntLiteral(repl \o str(ec))
        ELSE In(ec, startc) /\ ~IsIntLiteral(str(sc) \o repl)

\* the loop body keeping the row's own classes and giving a one-sided row
\* the combined code of the two
CollapseRowOwnClass(r, startc, nm) ==
    LET sc   == r.start_class
        ec   == r.end_class
    IN  IF In(sc, startc)
        THEN IF In(ec, startc)
             THEN [r EXCEPT !.reclass = 1,
                            !.change_type = nm \o " both time periods"]
             ELSE [r EXCEPT !.reclass = CombinedCode(sc, ec),
                            !.change_type = r.start_class_name \o " to " \o r.end_class_name]
        ELSE IF In(ec, startc)
             THEN [r EXCEPT !.reclass = CombinedCode(sc, ec),
                            !.change_type = r.start_class_name \o " to " \o r.end_class_name]
             ELSE [r EXCEPT !.reclass = 0,
                            !.change_type = "Not " \o nm \o " either time period"]

\* the body of the UpdateCursor loop on row r of tmp_tab
CollapseRow(r, startc, nm) ==
    LET repl == str(startc[1])
        sc   == r.start_class
        ec   == r.end_class
    IN  IF In(sc, startc)
        THEN IF In(ec, startc)
             THEN [r EXCEPT !.reclass = 1,
                            !.change_type = nm \o " both time periods"]
             ELSE [r EXCEPT !.start_class = int(repl),
                            !.start_class_name = nm,
                            !.reclass = int(repl \o str(ec)),
                            !.change_type = nm \o " to " \o r.end_class_name]
        ELSE IF In(ec, startc)
             THEN [r EXCEPT !.end_class = int(repl),
                            !.end_class_name = nm,
                            !.reclass = int(str(sc) \o repl),
                            !.change_type = r.start_class_name \o " to " \o nm]
             ELSE [r EXCEPT !.reclass = 0,
                            !.change_type = "Not " \o nm \o " either time period"]

\* JoinField(out_rast, "Value", "tmp_tab", "reclass", ['change_type']): the
\* change_type of the first row of tab whose reclass is the value
JoinField(value, tab) ==
    tab[Min({ k \in 1..Len(tab) : tab[k].reclass = value })].change_type

\* the two CalculateField calls of change_to_from over the joined table
CollapseStats(joined) ==
    [k \in 1..Len(joined) |->
        [Value       |-> joined[k].Value,
         Count       |-> joined[k].Count,
         change_type |-> joined[k].change_type,
         area_ha     |-> AreaHa(joined[k].Count),
         perc_area   |-> Percent(joined[k].Count, TotalCells(joined))]]

\* start_cls is a list: its first entry is the replacement value
Orderings(S) ==
    { s \in [1..Cardinality(S) -> S] : \A a, b \in 1..Cardinality(S) : s[a] = s[b] => a = b }

change_to_from ==
    /\ pc \in {"changed", "reused"}
    /\ \E S \in ClassLists : \E startc \in Orderings(S) :
       \* each intermediate table is bound once, as a value
       \E copy \in { CopyRows(chg_rast) } :
       \E raises \in { { k \in 1..Len(copy) : RowRaises(copy[k], startc) } } :
         /\ start_cls' = startc
         /\ IF raises = {}
            THEN \E tab \in { [k \in 1..Len(copy) |->
                                CollapseRow(copy[k], startc, start_cls_nm)] } :
                 \E vals \in { ReclassByTable(chg_rast, tab) } :
                     /\ tmp_tab' = AfterCursor("tmp_tab", copy, tab)
                     /\ chg_rast' = AfterCursor("chg_rast", chg_rast, tab)
                     /\ out_rast' = CollapseStats(
                                       [k \in 1..Len(vals) |->
                                          [Value       |-> vals[k],
                                           Count       |-> OutCount(chg_rast, tab, vals[k]),
                                           change_type |-> JoinField(vals[k], tab)]])
                     /\ pc' = "collapsed"
            ELSE \* the rows before the failing one were updated in place
                 \E part \in { [k \in 1..Len(copy) |->
                                  IF k < Min(raises)
                                  THEN CollapseRow(copy[k], startc, start_cls_nm)
                                  ELSE copy[k]] } :
                     /\ tmp_tab' = AfterCursor("tmp_tab", copy, part)
                     /\ chg_rast' = AfterCursor("chg_rast", chg_rast, part)
                     /\ out_rast' = out_rast
                 /\ pc' = "ValueError"
    /\ UNCHANGED <<nlcd_t1, nlcd_t2, cls, end_cls, backwards, pixels, cellSize>>
    /\ UNCHANGED libVars

----------------------------------------------------------------------------
(* Helper.CleanFeatures *)

\* while counter <= 10
Tries == 10

\* RepairGeometry_management(inFeats, "DELETE_NULL"): features with a null
\* geometry are deleted
RepairGeometry(feats) == SelectSeq(feats, LAMBDA n : n > 0)

\* MultipartToSinglepart_management: one single-part feature per part
RECURSIVE MultipartToSinglepart(_)
MultipartToSinglepart(feats) ==
    IF feats = <<>> THEN <<>>
    ELSE [k \in 1..feats[1] |-> 1] \o MultipartToSinglepart(Tail(feats))

\* a test that never gives up
GiveUpNever(n) == FALSE

\* if counter == 11
GiveUp(n) == n = 11

\* the call: the first geometry repair and counter = 1
CleanFeatures ==
    /\ cleanPc = "idle"
    /\ inFeats' = RepairGeometry(inFeats)
    /\ counter' = 1
    /\ cleanPc' = "loop"
    /\ UNCHANGED <<outFeats, attempts, copies>>
    /\ UNCHANGED <<cdVars, clipVars, mainVars, tabVars, barVars>>

\* the try block succeeds: the features are exploded and counter = 11
try_explode ==
    /\ cleanPc = "loop"
    /\ counter <= Tries
    /\ attempts' = attempts + 1
    /\ outFeats' = <<"MultipartToSinglepart", MultipartToSinglepart(inFeats)>>
    /\ counter' = 11
    /\ UNCHANGED <<inFeats, copies, cleanPc>>
    /\ UNCHANGED <<cdVars, clipVars, mainVars, tabVars, barVars>>

\* MultipartToSinglepart raises: the except block repairs the geometry,
\* counts, and copies the features when the counter has reached 11
except_explode ==
    /\ cleanPc = "loop"
    /\ counter <= Tries
    /\ attempts' = attempts + 1
    /\ inFeats' = RepairGeometry(inFeats)
    /\ counter' = counter + 1
    /\ IF GiveUp(counter + 1)
       THEN /\ outFeats' = <<"CopyFeatures", RepairGeometry(inFeats)>>
            /\ copies' = copies + 1
       ELSE UNCHANGED <<outFeats, copies>>
    /\ UNCHANGED cleanPc
    /\ UNCHANGED <<cdVars, clipVars, mainVars, tabVars, barVars>>

\* a call outside the try block raises (the first RepairGeometry, or the
\* RepairGeometry or CopyFeatures of the except block after a failed
\* attempt): the exception leaves the function
clean_raises ==
    /\ \/ cleanPc = "idle" /\ UNCHANGED attempts
       \/ cleanPc = "loop" /\ counter <= Tries /\ attempts' = attempts + 1
    /\ cleanPc' = "raised"
    /\ UNCHANGED <<inFeats, outFeats, counter, copies>>
    /\ UNCHANGED <<cdVars, clipVars, mainVars, tabVars, barVars>>

\* the loop condition fails: return outFeats
clean_return ==
    /\ cleanPc = "loop"
    /\ counter > Tries
    /\ cleanPc' = "returned"
    /\ UNCHANGED <<inFeats, outFeats, counter, attempts, copies>>
    /\ UNCHANGED <<cdVars, clipVars, mainVars, tabVars, barVars>>

----------------------------------------------------------------------------
(* clipNLCD.main *)

\* the (pattern, prefix) pairs of the outer loop, by product
patterns == << <<"land_cover", "lc_">>, <<"impervious", "imperv_">> >>

\* z.replace('.zip', ''): the name of a zip without its extension
Base(z) == [prod |-> z.prod, year |-> z.year, ver |-> z.ver]

\* f.startswith(base)
StartsWith(f, base) == Base(f) = base

\* out_gdb + os.sep + prefix + base[5:9]
OutName(prefix, base) == <<prefix, base.year>>

\* nlcd_folder + os.sep + base + '.img'
Img(base) == [prod |-> base.prod, year |-> base.year, ver |-> base.ver, ext |-> "img"]

\* the members zf.extractall writes to the folder
ZipMembers(base) ==
    { [prod |-> base.prod, year |-> base.year, ver |-> base.ver, ext |-> e] :
        e \in {"img", "ige"} }

\* [f for f in flist if pattern in f and f.endswith('.zip')]
MatchingZips(files, pattern) ==
    { f \in files : f.prod = pattern /\ f.ext = "zip" }

\* a removal list that keeps nothing of the base
StartingWithBase(files, base) == { f \in files : StartsWith(f, base) }

\* [f for f in flist if f.startswith(base) and not f.endswith('.zip')]
ExtractedFiles(files, base) ==
    { f \in files : StartsWith(f, base) /\ f.ext # "zip" }

\* the orders in which os.listdir can return the files of a set
Listings(S) ==
    { s \in [1..Cardinality(S) -> S] : \A a, b \in 1..Cardinality(S) : s[a] = s[b] => a = b }

\* the output raster of a file's zip: the prefix is that of its pattern
ClippedName(f) ==
    OutName(patterns[CHOOSE j \in 1..Len(patterns) : patterns[j][1] = f.prod][2], Base(f))

\* the output raster of the current zip
CurrentOut == OutName(patterns[patIdx][2], Base(zfiles[1]))

\* main starts on the first pattern
clip_main ==
    /\ clipPc = "idle"
    /\ patIdx' = 1
    /\ clipPc' = "list"
    /\ UNCHANGED <<folder, gdb, zfiles>>
    /\ UNCHANGED <<cdVars, cleanVars, mainVars, tabVars, barVars>>

\* flist = os.listdir(nlcd_folder); zfiles = the zips matching the pattern
list_zips ==
    /\ clipPc = "list"
    /\ zfiles' \in Listings(MatchingZips(folder, patterns[patIdx][1]))
    /\ clipPc' = "next"
    /\ UNCHANGED <<folder, gdb, patIdx>>
    /\ UNCHANGED <<cdVars, cleanVars, mainVars, tabVars, barVars>>

\* for z in zfiles: if arcpy.Exists(o): continue
next_zip ==
    /\ clipPc = "next"
    /\ zfiles # <<>>
    /\ IF CurrentOut \in gdb
       THEN zfiles' = Tail(zfiles) /\ clipPc' = "next"
       ELSE zfiles' = zfiles /\ clipPc' = "extract"
    /\ UNCHANGED <<folder, gdb, patIdx>>
    /\ UNCHANGED <<cdVars, cleanVars, mainVars, tabVars, barVars>>

\* if not arcpy.Exists(f): zf.extractall(nlcd_folder)
extract ==
    /\ clipPc = "extract"
    /\ folder' = IF Img(Base(zfiles[1])) \notin folder
                 THEN folder \cup ZipMembers(Base(zfiles[1]))
                 ELSE folder
    /\ clipPc' = "clip"
    /\ UNCHANGED <<gdb, patIdx, zfiles>>
    /\ UNCHANGED <<cdVars, cleanVars, mainVars, tabVars, barVars>>

\* clipNLCD(f, o, template_mask=template_raster) returns
clipNLCD ==
    /\ clipPc = "clip"
    /\ gdb' = gdb \cup {CurrentOut}
    /\ clipPc' = "remove"
    /\ UNCHANGED <<folder, patIdx, zfiles>>
    /\ UNCHANGED <<cdVars, cleanVars, mainVars, tabVars, barVars>>

\* clipNLCD raises: main ends with the exception
clipNLCD_raises ==
    /\ clipPc = "clip"
    /\ clipPc' = "raised"
    /\ UNCHANGED <<folder, gdb, patIdx, zfiles>>
    /\ UNCHANGED <<cdVars, cleanVars, mainVars, tabVars, barVars>>

\* the os.remove calls on the extracted files of the base
remove_files ==
    /\ clipPc = "remove"
    /\ folder' = folder \ ExtractedFiles(folder, Base(zfiles[1]))
    /\ zfiles' = Tail(zfiles)
    /\ clipPc' = "next"
    /\ UNCHANGED <<gdb, patIdx>>
    /\ UNCHANGED <<cdVars, cleanVars, mainVars, tabVars, barVars>>

\* the zips of the pattern are done: the next pattern, or the end of main
next_pattern ==
    /\ clipPc = "next"
    /\ zfiles = <<>>
    /\ patIdx' = patIdx + 1
    /\ clipPc' = IF patIdx < Len(patterns) THEN "list" ELSE "done"
    /\ UNCHANGED <<folder, gdb, zfiles>>
    /\ UNCHANGED <<cdVars, cleanVars, mainVars, tabVars, barVars>>

----------------------------------------------------------------------------
(* LandscapeChange.main *)

\* out_gdb + os.sep + "nlcd_1992"
nlcd_1992 == <<"nlcd_1992">>

\* out_gdb + os.sep + 'lc_' + str(inRast[0]) + '_rclsBarrens'
BarrensName(year) == <<"lc", year, "rclsBarrens">>

\* out_gdb + os.sep + 'lc_' + str(inRast[0]) + '_rclsGeneral'
GeneralName(year) == <<"lc", year, "rclsGeneral">>

\* a loop that takes the 1992 raster as reference in every iteration
ReferenceAlways1992(i, last) == <<nlcd_1992, "1992">>

\* if n[0] == 0: ref, refYear = nlcd_1992, "1992"; else: outRast, "2001"
Reference(i, last) ==
    IF i = 1 THEN <<nlcd_1992, "1992">> ELSE <<last, "2001">>

\* main up to the loop: nlcd_1992 is extracted if it does not exist
lc_main ==
    /\ mainPc = "idle"
    /\ out_gdb' = out_gdb \cup {nlcd_1992}
    /\ yearIdx' = 1
    /\ mainPc' = "barren"
    /\ UNCHANGED <<nlcd_rasts, outRast, calls>>
    /\ UNCHANGED <<cdVars, cleanVars, clipVars, tabVars, barVars>>

\* the first half of an iteration: reclassBarren unless outRast exists
barren_step ==
    /\ mainPc = "barren"
    /\ yearIdx <= Len(nlcd_rasts)
    /\ \E ref \in { Reference(yearIdx, outRast) } :
       \E out \in { BarrensName(nlcd_rasts[yearIdx]) } :
           /\ outRast' = out
           /\ IF out \notin out_gdb
              THEN /\ calls' = Append(calls, [ref     |-> ref[1],
                                              schema  |-> ref[2],
                                              inRast  |-> nlcd_rasts[yearIdx],
                                              outRast |-> out])
                   /\ out_gdb' = out_gdb \cup {out}
              ELSE UNCHANGED <<calls, out_gdb>>
    /\ mainPc' = "general"
    /\ UNCHANGED <<nlcd_rasts, yearIdx>>
    /\ UNCHANGED <<cdVars, cleanVars, clipVars, tabVars, barVars>>

\* the second half: reclassGeneral unless outRast_gen exists
general_step ==
    /\ mainPc = "general"
    /\ out_gdb' = out_gdb \cup {GeneralName(nlcd_rasts[yearIdx])}
    /\ yearIdx' = yearIdx + 1
    /\ mainPc' = "barren"
    /\ UNCHANGED <<nlcd_rasts, outRast, calls>>
    /\ UNCHANGED <<cdVars, cleanVars, clipVars, tabVars, barVars>>

\* reclassBarren or reclassGeneral raises before its output is written:
\* main ends with the exception
reclass_raises ==
    /\ \/ /\ mainPc = "barren"
          /\ yearIdx <= Len(nlcd_rasts)
          /\ BarrensName(nlcd_rasts[yearIdx]) \notin out_gdb
       \/ /\ mainPc = "general"
          /\ GeneralName(nlcd_rasts[yearIdx]) \notin out_gdb
    /\ mainPc' = "raised"
    /\ UNCHANGED <<out_gdb, nlcd_rasts, yearIdx, outRast, calls>>
    /\ UNCHANGED <<cdVars, cleanVars, clipVars, tabVars, barVars>>

\* the loop is over: main goes on to the summary tables
loop_done ==
    /\ mainPc = "barren"
    /\ yearIdx > Len(nlcd_rasts)
    /\ mainPc' = "summary"
    /\ UNCHANGED <<out_gdb, nlcd_rasts, yearIdx, outRast, calls>>
    /\ UNCHANGED <<cdVars, cleanVars, clipVars, tabVars, barVars>>

----------------------------------------------------------------------------
(* LandscapeChange.tabLcTypes *)

\* arithmetic of the FLOAT fields, as exact fractions <<numerator,
\* denominator>>; NullFloat is absorbing
RatSub(a, b) ==
    IF a = NullFloat \/ b = NullFloat THEN NullFloat
    ELSE <<(a[1] * b[2]) - (b[1] * a[2]), a[2] * b[2]>>

RatMul(a, b) ==
    IF a = NullFloat \/ b = NullFloat THEN NullFloat
    ELSE <<a[1] * b[1], a[2] * b[2]>>

RatDiv(a, b) ==
    IF a = NullFloat \/ b = NullFloat THEN NullFloat
    ELSE <<a[1] * b[2], a[2] * b[1]>>

RatEq(a, b) ==
    IF a = NullFloat \/ b = NullFloat THEN a = b
    ELSE a[1] * b[2] = b[1] * a[2]

\* the string order of Python, on strings of digits
RECURSIVE StrLess(_, _)
StrLess(a, b) ==
    IF Len(b) = 0 THEN FALSE
    ELSE IF Len(a) = 0 THEN TRUE
    ELSE IF a[1] = b[1] THEN StrLess(Tail(a), Tail(b))
    ELSE DigitValue(a[1]) < DigitValue(b[1])

\* a list of years left in the order of the appends
unsorted(lst) == lst

\* y.sort()
RECURSIVE sort(_)
sort(lst) ==
    IF Len(lst) <= 1 THEN lst
    ELSE LET m == CHOOSE k \in 1..Len(lst) :
                      \A j \in 1..Len(lst) : ~StrLess(lst[j], lst[k])
         IN  <<lst[m]>> \o sort(SubSeq(lst, 1, m - 1)
                                \o SubSeq(lst, m + 1, Len(lst)))

\* 'lc_' + yyyy, the naming convention of the rasters
RasterName(yyyy) == <<"l", "c", "_">> \o str(yyyy)

\* year = name[3:7]
YearOf(name) == SubSeq(name, 4, 7)

\* the names of the fields
CountFld == <<"Count", <<>>>>
percFld(year) == <<"Percent_", year>>
haFld(year) == <<"Area_ha_", year>>
acFld(year) == <<"Area_ac_", year>>
ChangeHa == <<"Change_ha", <<>>>>
ChangeAc == <<"Change_ac", <<>>>>
ChangePerc == <<"Change_perc", <<>>>>

\* arr["Count"].sum()
CountTotal(tab) == SumOver([v \in DOMAIN tab |-> tab[v][CountFld]], DOMAIN tab)

\* a total that is counted again for every raster
PixelTotalEveryRaster(cc, old, tab) == CountTotal(tab)

\* if c == 0: sum = arr["Count"].sum()
PixelTotal(cc, old, tab) == IF cc = 0 THEN CountTotal(tab) ELSE old

\* "!Count!*0.09"
AreaHa09(count) == <<count * 9, 100>>

\* the factor of "!Count!*0.2223948429"
AcPerCell == "0.2223948429"

\* "!Count!*0.2223948429": the count, in units of the factor
AreaAc(count) == <<count, AcPerCell>>

\* the difference of two acre values, in units of the factor
AcSub(a, b) ==
    IF a = NullFloat \/ b = NullFloat THEN NullFloat
    ELSE <<a[1] - b[1], AcPerCell>>

\* the three AddField / CalculateField pairs on the raster's table
CalculateFields(tab, year, total) ==
    [v \in DOMAIN tab |->
        (percFld(year) :> <<100 * tab[v][CountFld], total>>)
        @@ (haFld(year) :> AreaHa09(tab[v][CountFld]))
        @@ (acFld(year) :> AreaAc(tab[v][CountFld]))
        @@ tab[v]]

\* a row without some of its fields
DropFields(row, flds) == [f \in (DOMAIN row) \ flds |-> row[f]]

\* TableToTable_conversion, then DeleteField of Count
TableToTable(tab) == [v \in DOMAIN tab |-> DropFields(tab[v], {CountFld})]

\* JoinField_management(sumTab, "Value", clipRast, "Value", flds): a row
\* without a match gets nulls
JoinFields(target, tab, flds) ==
    [v \in DOMAIN target |->
        [f \in flds |-> IF v \in DOMAIN tab THEN tab[v][f] ELSE NullFloat]
        @@ target[v]]

\* the three change fields of a row
ChangeFields(row, startYear, endYear) ==
    LET startHa == row[haFld(startYear)]
        endHa   == row[haFld(endYear)]
    IN  (ChangeHa :> RatSub(endHa, startHa))
        @@ (ChangeAc :> AcSub(row[acFld(endYear)], row[acFld(startYear)]))
        @@ (ChangePerc :> RatDiv(RatMul(<<100, 1>>, RatSub(endHa, startHa)),
                                 startHa))
        @@ row

\* whether a change expression meets a null in some row
NullOperand(tab, startYear, endYear) ==
    \E v \in DOMAIN tab :
        \/ tab[v][haFld(startYear)] = NullFloat
        \/ tab[v][haFld(endYear)] = NullFloat

\* tabLcTypes is called
tabLcTypes ==
    /\ tabPc = "idle"
    /\ tab_c' = 0
    /\ tab_y' = <<>>
    /\ tabPc' = "loop"
    /\ UNCHANGED <<rasterList, tab_sum, sumTab>>
    /\ UNCHANGED <<cdVars, cleanVars, clipVars, mainVars, barVars>>

\* one iteration of the loop over rasterList
tab_raster ==
    /\ tabPc = "loop"
    /\ tab_c < Len(rasterList)
    /\ \E rast \in { rasterList[tab_c + 1] } :
       \E total \in { PixelTotal(tab_c, tab_sum, rast.tab) } :
       \E year \in { YearOf(rast.name) } :
       \E clipRast \in { CalculateFields(rast.tab, year, total) } :
           /\ tab_sum' = total
           /\ rasterList' = [rasterList EXCEPT ![tab_c + 1].tab = clipRast]
           /\ sumTab' = IF tab_c = 0
                        THEN TableToTable(clipRast)
                        ELSE JoinFields(sumTab, clipRast,
                                 {percFld(year), haFld(year), acFld(year)})
           /\ tab_y' = sort(Append(tab_y, year))
    /\ tab_c' = tab_c + 1
    /\ UNCHANGED tabPc
    /\ UNCHANGED <<cdVars, cleanVars, clipVars, mainVars, barVars>>

\* after the loop: c -= 1, startYear = y[0], endYear = y[c], and the three
\* change fields; a row with a null operand gets nulls
tab_change ==
    /\ tabPc = "loop"
    /\ tab_c = Len(rasterList)
    /\ tab_c > 0
    /\ tab_c' = tab_c - 1
    /\ sumTab' = [v \in DOMAIN sumTab |->
                     ChangeFields(sumTab[v], tab_y[1], tab_y[tab_c' + 1])]
    /\ tabPc' = "finished"
    /\ UNCHANGED <<rasterList, tab_y, tab_sum>>
    /\ UNCHANGED <<cdVars, cleanVars, clipVars, mainVars, barVars>>

\* after the loop, a null operand makes CalculateField fail
tab_change_fails ==
    /\ tabPc = "loop"
    /\ tab_c = Len(rasterList)
    /\ tab_c > 0
    /\ NullOperand(sumTab, tab_y[1], tab_y[tab_c])
    /\ tab_c' = tab_c - 1
    /\ tabPc' = "ExecuteError"
    /\ UNCHANGED <<rasterList, tab_y, tab_sum, sumTab>>
    /\ UNCHANGED <<cdVars, cleanVars, clipVars, mainVars, barVars>>

\* an empty rasterList: y[0] raises IndexError
tab_no_rasters ==
    /\ tabPc = "loop"
    /\ Len(rasterList) = 0
    /\ tab_c' = tab_c - 1
    /\ tabPc' = "IndexError"
    /\ UNCHANGED <<rasterList, tab_y, tab_sum, sumTab>>
    /\ UNCHANGED <<cdVars, cleanVars, clipVars, mainVars, barVars>>

----------------------------------------------------------------------------
(* LandscapeChange.reclassBarren, on rasters of one row *)

\* a cell without data
NoData == NULL

\* the columns of a raster
Cells(rast) == 1..Len(rast)

\* the remap table rclsTab of the schema
rclsTab(sch) ==
    IF sch = "1992"
    THEN (0 :> NoData)
         @@ [v \in {11, 31, 91, 92} |-> 31]
         @@ [v \in {21, 22, 23, 32, 33, 41, 42, 43, 51, 61, 71,
                    81, 82, 83, 84, 85} |-> 32]
    ELSE (0 :> NoData)
         @@ [v \in {11, 31, 90, 95} |-> 31]
         @@ [v \in {21, 22, 23, 24, 32, 41, 42, 43, 52, 71, 81, 82} |-> 32]

\* Reclassify_sa(refRast, "Value", rclsTab, refRast_rcls, "DATA"): a value
\* that is not in the table is kept
Reclassify(rast, tab) ==
    [p \in Cells(rast) |->
        IF rast[p] = NoData THEN NoData
        ELSE IF rast[p] \in DOMAIN tab THEN tab[rast[p]]
        ELSE rast[p]]

\* the cells of the 3 x 3 rectangle around a cell that lie in the raster
Rectangle3(rast, p) == { q \in Cells(rast) : q >= p - 1 /\ q <= p + 1 }

\* what the focal statistic gives a cell where values tie for the majority
TieRules == {"NoData", "lowest", "highest"}

\* FocalStatistics_sa(..., "Rectangle 3 3 CELL", "MAJORITY", "DATA"): the
\* value that most cells of the neighbourhood have, NoData cells ignored
FocalMajority(rast, tie) ==
    [p \in Cells(rast) |->
        LET nbh     == { q \in Rectangle3(rast, p) : rast[q] # NoData }
            n_of(v) == Cardinality({ q \in nbh : rast[q] = v })
            vals    == { rast[q] : q \in nbh }
            most    == { v \in vals : \A w \in vals : n_of(w) <= n_of(v) }
        IN  IF vals = {} THEN NoData
            ELSE IF Cardinality(most) = 1 THEN CHOOSE v \in most : TRUE
            ELSE IF tie = "NoData" THEN NoData
            ELSE IF tie = "lowest" THEN Min(most)
            ELSE CHOOSE v \in most : \A w \in most : w <= v]

\* Expand_sa(refRast_filt, exp31, "3", "31"): the zone takes every cell
\* within the number of cells of one of its cells
Expand(rast, number_cells, zone) ==
    [p \in Cells(rast) |->
        IF \E q \in Cells(rast) :
              /\ rast[q] = zone
              /\ q >= p - number_cells
              /\ q <= p + number_cells
        THEN zone ELSE rast[p]]

\* SetNull_sa(refRast, "32", refRast_32, "Value <> 32")
SetNull(rast, false_value, not_equal) ==
    [p \in Cells(rast) |->
        IF rast[p] = NoData \/ rast[p] # not_equal THEN NoData
        ELSE false_value]

\* the cell size of EucDistance_sa(refRast_32, eDist32, "", "30", "")
EucCellSize == 30

\* the distance from a cell to the nearest cell with data; NoData
\* everywhere if no cell has data
EucDistance(rast) ==
    [p \in Cells(rast) |->
        LET src == { q \in Cells(rast) : rast[q] # NoData }
            d(q) == IF q >= p THEN (q - p) * EucCellSize
                    ELSE (p - q) * EucCellSize
        IN  IF src = {} THEN NoData
            ELSE Min({ d(q) : q \in src })]

\* the nested Con of the raster calculator on one cell; Con gives NoData
\* where its condition has no data
ConBarren(in, ref, eDist32, exp31) ==
    IF in = NoData THEN NoData
    ELSE IF in = 31
    THEN IF ref = NoData THEN NoData
         ELSE IF ref = 31 THEN 31
         ELSE IF ref = 32 THEN 32
         ELSE IF eDist32 = NoData THEN NoData
         ELSE IF eDist32 < 100 THEN 32
         ELSE exp31
    ELSE in

\* the raster exp31: reclassified, filtered, and the 31 class expanded
LikeliestTransition(ref, sch, tie) ==
    Expand(FocalMajority(Reclassify(ref, rclsTab(sch)), tie), 3, 31)

\* the raster eDist32
DistanceTo32(ref) == EucDistance(SetNull(ref, 32, 32))

\* reclassBarren(refRast, schema, inRast, outRast)
reclassBarren ==
    /\ barPc = "idle"
    /\ \E tie \in TieRules :
       \E exp31 \in { LikeliestTransition(refRast, schema, tie) } :
       \E eDist32 \in { DistanceTo32(refRast) } :
           outBarren' = [p \in Cells(inRast) |->
                            ConBarren(inRast[p], refRast[p],
                                      eDist32[p], exp31[p])]
    /\ barPc' = "finished"
    /\ UNCHANGED <<refRast, schema, inRast>>
    /\ UNCHANGED <<cdVars, cleanVars, clipVars, mainVars, tabVars>>

\* the reference raster has no cell of class 32 and EucDistance_sa,
\* given a source without data, fails
reclassBarren_fails ==
    /\ barPc = "idle"
    /\ \A p \in Cells(refRast) : refRast[p] # 32
    /\ barPc' = "ExecuteError"
    /\ UNCHANGED <<refRast, schema, inRast, outBarren>>
    /\ UNCHANGED <<cdVars, cleanVars, clipVars, mainVars, tabVars>>

----------------------------------------------------------------------------
(* The state machine *)

\* CleanFeatures has not been called
CleanIdle ==
    /\ inFeats = <<>>
    /\ outFeats = <<>>
    /\ counter = 0
    /\ attempts = 0
    /\ copies = 0
    /\ cleanPc = "idle"

\* clipNLCD.main has not been started
ClipIdle ==
    /\ folder = {}
    /\ gdb = {}
    /\ patIdx = 0
    /\ zfiles = <<>>
    /\ clipPc = "idle"

\* LandscapeChange.main has not been started
MainIdle ==
    /\ out_gdb = {}
    /\ nlcd_rasts = <<>>
    /\ yearIdx = 0
    /\ outRast = <<>>
    /\ calls = <<>>
    /\ mainPc = "idle"

\* LandscapeChange.tabLcTypes has not been called
TabIdle ==
    /\ rasterList = <<>>
    /\ tab_c = 0
    /\ tab_y = <<>>
    /\ tab_sum = NULL
    /\ sumTab = <<>>
    /\ tabPc = "idle"

\* LandscapeChange.reclassBarren has not been called
BarrenIdle ==
    /\ refRast = <<>>
    /\ schema = ""
    /\ inRast = <<>>
    /\ outBarren = <<>>
    /\ barPc = "idle"

\* none of the other scripts is running
LibraryIdle == CleanIdle /\ ClipIdle /\ MainIdle /\ TabIdle /\ BarrenIdle

\* what no function has written yet
NothingRun ==
    /\ LibraryIdle
    /\ cls = <<>>
    /\ chg_rast = <<>>
    /\ start_cls = <<>>
    /\ end_cls = <<>>
    /\ backwards = FALSE
    /\ tmp_tab = <<>>
    /\ out_rast = <<>>
    /\ pc = "start"

\* Rasters of 30 m cells in which every combination of a time-1 class and a
\* time-2 class covers one pixel.
Init ==
    /\ \/ \E sch \in Schemes : \E A, B \in SUBSET sch :
            /\ Cardinality(A) \in 1..MaxCats
            /\ Cardinality(B) \in 1..MaxCats
            /\ nlcd_t1 = ClassTable(A)
            /\ nlcd_t2 = ClassTable(B)
            /\ pixels = [p \in A \X B |-> 1]
       \/ \E s, e \in RangeValues :
            /\ nlcd_t1 = ClassTable({s})
            /\ nlcd_t2 = ClassTable({e})
            /\ pixels = [p \in {s} \X {e} |-> 1]
    /\ cellSize = 30
    /\ NothingRun

\* the classes of the rasters whose pixel counts vary
StatClasses == {2, 4, 9}

\* pixel counts of the class pairs, dealt to the pairs in Value order and
\* repeated when there are more pairs than counts; 0 is a pair that occurs
\* in no pixel
CountPatterns == { <<10, 30, 60, 0>>, <<0, 7, 7, 1>>, <<5, 0, 0, 2>> }

\* cell sizes of the time-1 raster, in metres: that of NLCD and a finer one
CellSizes == {30, 10}

\* the position of x among the elements of S in ascending order
Rank(x, S) == Cardinality({ y \in S : y <= x })

\* the pixel counts of the pairs of A \X B dealt from the pattern pat
Deal(A, B, pat) ==
    [p \in A \X B |->
        pat[((((Rank(p[1], A) - 1) * Cardinality(B)) + Rank(p[2], B) - 1) % Len(pat)) + 1]]

\* Rasters of either cell size in which the class pairs cover different
\* numbers of pixels, some of them none.
InitStats ==
    /\ \E A, B \in SUBSET StatClasses : \E pat \in CountPatterns :
         /\ Cardinality(A) \in 1..MaxCats
         /\ Cardinality(B) \in 1..MaxCats
         /\ nlcd_t1 = ClassTable(A)
         /\ nlcd_t2 = ClassTable(B)
         /\ pixels = Deal(A, B, pat)
         /\ SumOver(pixels, DOMAIN pixels) > 0
    /\ cellSize \in CellSizes
    /\ NothingRun

\* arcpy.Exists(chg_rast): a saved raster has at least one row
Exists(rast) == rast # <<>>

\* The script is started again after change_rast stopped with an exception:
\* the loop calls change_rast only if the change raster does not exist, and
\* goes on to change_summary with the raster it found otherwise.
year_pair_loop ==
    /\ pc \in {"IndexError", "ExecuteError"}
    /\ pc' = IF ~Exists(chg_rast) THEN "start" ELSE "reused"
    /\ UNCHANGED <<nlcd_t1, nlcd_t2, cls, chg_rast, start_cls, end_cls, backwards,
                   tmp_tab, out_rast, pixels, cellSize>>
    /\ UNCHANGED libVars

\* a class with pixels in the time-1 raster and no row in its attribute table
StaleClasses == {7}

\* Rasters of 30 m cells in which every class pair covers one pixel; the
\* attribute table of the time-1 raster may lack a class that has pixels.
InitRetry ==
    /\ \E A, B \in SUBSET StatClasses : \E X \in SUBSET StaleClasses :
         /\ Cardinality(A) \in 1..MaxCats
         /\ Cardinality(B) \in 1..MaxCats
         /\ nlcd_t1 = ClassTable(A)
         /\ nlcd_t2 = ClassTable(B)
         /\ pixels = [p \in (A \cup X) \X B |-> 1]
    /\ cellSize = 30
    /\ NothingRun

\* ChangeDetection.py has not been run
ChangeDetectionIdle ==
    /\ nlcd_t1 = <<>>
    /\ nlcd_t2 = <<>>
    /\ pixels = <<>>
    /\ cellSize = 30
    /\ cls = <<>>
    /\ chg_rast = <<>>
    /\ start_cls = <<>>
    /\ end_cls = <<>>
    /\ backwards = FALSE
    /\ tmp_tab = <<>>
    /\ out_rast = <<>>
    /\ pc = "start"

\* the polygons of an input feature class: up to three, each with no part
\* (a null geometry), one part or two
FeatureClasses ==
    UNION { [1..n -> {0, 1, 2}] : n \in 1..3 }

\* CleanFeatures is about to be called on some feature class; outFeats does
\* not exist yet
InitClean ==
    /\ inFeats \in FeatureClasses
    /\ outFeats = <<>>
    /\ counter = 0
    /\ attempts = 0
    /\ copies = 0
    /\ cleanPc = "idle"
    /\ ChangeDetectionIdle
    /\ ClipIdle
    /\ MainIdle
    /\ TabIdle
    /\ BarrenIdle

\* most zip files in the folder
MaxZips == 2

\* the zip files that can lie in the folder: two products, two years, and
\* two release dates of each
ZipFiles ==
    { [prod |-> p, year |-> y, ver |-> v, ext |-> "zip"] :
        p \in {"land_cover", "impervious"}, y \in {2019, 2021},
        v \in {"20210604", "20230630"} }

\* main is about to run on a folder holding some zips, with the rasters of
\* some of them left extracted and some clipped outputs left in the
\* geodatabases by an earlier run
InitClip ==
    /\ \E Z \in SUBSET ZipFiles :
         /\ Cardinality(Z) \in 1..MaxZips
         /\ \E X \in SUBSET { Img(Base(z)) : z \in Z } : folder = Z \cup X
         /\ gdb \in SUBSET { ClippedName(z) : z \in Z }
    /\ patIdx = 0
    /\ zfiles = <<>>
    /\ clipPc = "idle"
    /\ ChangeDetectionIdle
    /\ CleanIdle
    /\ MainIdle
    /\ TabIdle
    /\ BarrenIdle

\* most rasters in nlcd_rasts
MaxYears == 4

\* the years of nlcd_rasts
Years == <<2001, 2004, 2006, 2008, 2011, 2013, 2016, 2019, 2021>>

\* main is about to run on the first years of the list; the geodatabase
\* holds the outputs an earlier run left
InitMain ==
    /\ \E len \in 1..MaxYears :
         /\ nlcd_rasts = SubSeq(Years, 1, len)
         /\ out_gdb \in SUBSET ( {nlcd_1992}
                                 \cup { BarrensName(Years[k]) : k \in 1..len }
                                 \cup { GeneralName(Years[k]) : k \in 1..len } )
    /\ yearIdx = 0
    /\ outRast = <<>>
    /\ calls = <<>>
    /\ mainPc = "idle"
    /\ ChangeDetectionIdle
    /\ CleanIdle
    /\ ClipIdle
    /\ TabIdle
    /\ BarrenIdle

Next ==
    \/ change_rast
    \/ change_summary
    \/ change_to_from

Spec == Init /\ [][Next]_vars

SpecStats == InitStats /\ [][Next]_vars

\* the functions together with engine failures and restarts of the script
NextRetry ==
    \/ change_rast
    \/ change_rast_fails
    \/ year_pair_loop
    \/ change_summary
    \/ change_to_from

SpecRetry == InitRetry /\ [][NextRetry]_vars

NextClean ==
    \/ CleanFeatures
    \/ try_explode
    \/ except_explode
    \/ clean_raises
    \/ clean_return

\* most cells of one class in a raster
MaxCount == 2

\* the classes of the rasters
TabValues == {11, 41}

\* the years of the rasters
TabYears == {2001, 2011, 2021}

\* the attribute tables a raster can have: Value and Count
AttributeTables ==
    UNION { [V -> [{CountFld} -> 1..MaxCount]] : V \in (SUBSET TabValues) \ {{}} }

\* tabLcTypes is about to be called on rasters of different years, in any
\* order
InitTab ==
    /\ \E Y \in SUBSET TabYears :
       \E order \in Orderings(Y) :
       \E tabs \in [1..Cardinality(Y) -> AttributeTables] :
           rasterList = [k \in 1..Cardinality(Y) |->
                            [name |-> RasterName(order[k]), tab |-> tabs[k]]]
    /\ tab_c = 0
    /\ tab_y = <<>>
    /\ tab_sum = NULL
    /\ sumTab = <<>>
    /\ tabPc = "idle"
    /\ ChangeDetectionIdle
    /\ CleanIdle
    /\ ClipIdle
    /\ MainIdle
    /\ BarrenIdle

\* the columns of the rasters
Width == 5

\* the classes of the reference raster
RefCodes == {NoData, 11, 12, 31, 32, 41}

\* reclassBarren is about to be called on a raster that is forest (41) up
\* to some column and barren (31) from there on
InitBarren ==
    /\ refRast \in [1..Width -> RefCodes]
    /\ schema \in {"1992", "2001"}
    /\ \E from \in 1..(Width + 1) :
          inRast = [p \in 1..Width |-> IF p < from THEN 41 ELSE 31]
    /\ outBarren = <<>>
    /\ barPc = "idle"
    /\ ChangeDetectionIdle
    /\ CleanIdle
    /\ ClipIdle
    /\ MainIdle
    /\ TabIdle

NextBarren ==
    \/ reclassBarren
    \/ reclassBarren_fails

SpecBarren == InitBarren /\ [][NextBarren]_vars

NextTab ==
    \/ tabLcTypes
    \/ tab_raster
    \/ tab_change
    \/ tab_change_fails
    \/ tab_no_rasters

SpecTab == InitTab /\ [][NextTab]_vars

NextMain ==
    \/ lc_main
    \/ barren_step
    \/ general_step
    \/ reclass_raises
    \/ loop_done

SpecMain == InitMain /\ [][NextMain]_vars

NextClip ==
    \/ clip_main
    \/ list_zips
    \/ next_zip
    \/ extract
    \/ clipNLCD
    \/ clipNLCD_raises
    \/ remove_files
    \/ next_pattern

SpecClip == InitClip /\ [][NextClip]_vars

\* every call returns or raises in the end: the function keeps running
SpecClean == InitClean /\ [][NextClean]_vars /\ WF_vars(NextClean)

----------------------------------------------------------------------------
(* Properties *)

\* a class value the two-digit encoding can hold
InRange(v) == v >= 0 /\ v < BASE

\* the (start, end) pairs of classes of the two rasters
ClassPairs == { <<nlcd_t1[a][1], nlcd_t2[b][1]>> :
                  a \in 1..Len(nlcd_t1), b \in 1..Len(nlcd_t2) }

C2_SixClassTotal ==
    pc = "summarized" =>
      /\ Len(tmp_tab) = Len(chg_rast)
      /\ \A k \in 1..Len(tmp_tab) :
           /\ tmp_tab[k].Value = chg_rast[k].Value
           /\ tmp_tab[k].reclass \in 0..5
           /\ tmp_tab[k].reclass # NULL

\* C2 witness: a summary of four rows with overlapping class lists, one of
\* the rows in class 0.
C2_Witness ==
    /\ pc = "summarized"
    /\ Len(tmp_tab) = 4
    /\ Range(start_cls) \cap Range(end_cls) # {}
    /\ \E k \in 1..Len(tmp_tab) : tmp_tab[k].reclass = 0

\* the rules of the six-class scheme in their priority order, each with
\* whether it matches the pair and the class it gives
SixClassRules(sc, ec, S, E, bw) ==
    << <<sc \in S /\ ec \in S, 1>>,
       <<sc \in S /\ ec \in E, 2>>,
       <<sc \in S /\ ec \notin S /\ ec \notin E, 3>>,
       <<sc \in E /\ ec \in S, 4>>,
       <<sc \notin S /\ sc \notin E /\ ec \in S, IF bw THEN 5 ELSE 4>> >>

\* the class of the first matching rule, 0 when none matches
FirstMatchingRule(rules) ==
    IF \E k \in 1..Len(rules) : rules[k][1]
    THEN rules[Min({ k \in 1..Len(rules) : rules[k][1] })][2]
    ELSE 0

\* C3: for any class lists, overlapping ones included, the class of a row
\* is that of the first matching rule in the fixed order; with start {4},
\* end {2} and backwards false: (4,4) -> 1, (4,2) -> 2, (4,7) -> 3,
\* (2,4) -> 4, (9,4) -> 4, (9,9) -> 0.
C3_FirstMatchOrder ==
    pc = "summarized" =>
      \A k \in 1..Len(tmp_tab) :
        LET sc == chg_rast[k].start_class
            ec == chg_rast[k].end_class
            c  == tmp_tab[k].reclass
        IN  /\ c = FirstMatchingRule(SixClassRules(sc, ec, Range(start_cls),
                                                   Range(end_cls), backwards))
            /\ (start_cls = <<4>> /\ end_cls = <<2>> /\ ~backwards) =>
                 /\ (sc = 4 /\ ec = 4) => c = 1
                 /\ (sc = 4 /\ ec = 2) => c = 2
                 /\ (sc = 4 /\ ec = 7) => c = 3
                 /\ (sc = 2 /\ ec = 4) => c = 4
                 /\ (sc = 9 /\ ec = 4) => c = 4
                 /\ (sc = 9 /\ ec = 9) => c = 0

\* C3 witness: start {4}, end {2}, backwards false, on the rows (4,4), (4,7),
\* (9,4) and (9,7).
C3_Witness ==
    /\ pc = "summarized"
    /\ start_cls = <<4>> /\ end_cls = <<2>> /\ ~backwards
    /\ \E k \in 1..Len(tmp_tab) :
         chg_rast[k].start_class = 4 /\ chg_rast[k].end_class = 7 /\ tmp_tab[k].reclass = 3
    /\ \E k \in 1..Len(tmp_tab) :
         chg_rast[k].start_class = 9 /\ chg_rast[k].end_class = 4 /\ tmp_tab[k].reclass = 4

\* C4: with the other value of backwards a row gets another class exactly
\* when its start class is in neither list and its end class is in
\* start_cls; such a row is class 5 with backwards and class 4 without; a
\* row from end_cls (and not start_cls) to start_cls is class 4 either way;
\* without backwards no row is class 5.
C4_BackwardsFlag ==
    pc = "summarized" =>
      \A k \in 1..Len(tmp_tab) :
        LET sc    == chg_rast[k].start_class
            ec    == chg_rast[k].end_class
            c     == tmp_tab[k].reclass
            other == Reclass(sc, ec, start_cls, end_cls, ~backwards)
            S     == Range(start_cls)
            E     == Range(end_cls)
            fromOther == sc \notin S /\ sc \notin E /\ ec \in S
        IN  /\ (c # other) <=> fromOther
            /\ fromOther => c = (IF backwards THEN 5 ELSE 4)
            /\ (sc \in E /\ sc \notin S /\ ec \in S) => c = 4
            /\ ~backwards => c # 5

\* C4 witness: a summary with backwards in which one row came from end_cls
\* (class 4) and one from a class of neither list (class 5).
C4_Witness ==
    /\ pc = "summarized"
    /\ backwards
    /\ \E k \in 1..Len(tmp_tab) :
         chg_rast[k].start_class \in Range(end_cls) /\ tmp_tab[k].reclass = 4
    /\ \E k \in 1..Len(tmp_tab) : tmp_tab[k].reclass = 5

\* whether exactly the start class, or exactly the end class, is a target
OnlyStart(r) == In(r.start_class, start_cls) /\ ~In(r.end_class, start_cls)
OnlyEnd(r) == ~In(r.start_class, start_cls) /\ In(r.end_class, start_cls)

\* C5: the collapsed code of a pair (sc, ec) for target value T is 1 when
\* both are targets, T*100 + ec when only sc is, sc*100 + T when only ec is,
\* and 0 otherwise; with target {4}: (4,4) -> 1, (4,2) -> 402, (9,4) -> 904,
\* (9,9) -> 0.
C5_CollapsedCode ==
    ( /\ pc = "collapsed"
      /\ Len(start_cls) = 1
      /\ \A q \in ClassPairs : InRange(q[1]) /\ InRange(q[2]) ) =>
      \A k \in 1..Len(tmp_tab) :
        LET sc == chg_rast[k].start_class
            ec == chg_rast[k].end_class
            T  == start_cls[1]
            c  == tmp_tab[k].reclass
        IN  /\ c = IF In(sc, start_cls) /\ In(ec, start_cls) THEN 1
                   ELSE IF In(sc, start_cls) THEN (T * 100) + ec
                   ELSE IF In(ec, start_cls) THEN (sc * 100) + T
                   ELSE 0
            /\ T = 4 =>
                 /\ (sc = 4 /\ ec = 4) => c = 1
                 /\ (sc = 4 /\ ec = 2) => c = 402
                 /\ (sc = 9 /\ ec = 4) => c = 904
                 /\ (sc = 9 /\ ec = 9) => c = 0

\* C6: for a target value T and a non-target value X, both in 0..99, the
\* collapsed code of the transition (T, X) differs from that of (X, T).
C6_DirectionsApart ==
    (pc = "collapsed" /\ Len(start_cls) = 1) =>
      \A j, k \in 1..Len(tmp_tab) :
        ( /\ chg_rast[j].start_class = start_cls[1]
          /\ chg_rast[k].end_class = start_cls[1]
          /\ chg_rast[j].end_class = chg_rast[k].start_class
          /\ chg_rast[j].end_class # start_cls[1]
          /\ InRange(start_cls[1])
          /\ InRange(chg_rast[j].end_class) )
        => tmp_tab[j].reclass # tmp_tab[k].reclass

\* C7: two rows with exactly one side in the target list get the same
\* collapsed code only if they have the same direction and the same
\* non-target value, so the rows of one collapsed code have one change_type,
\* whichever of them the join picks.
C7_OneLabelPerCode ==
    pc = "collapsed" =>
      \A j, k \in 1..Len(tmp_tab) :
        ( /\ OnlyStart(chg_rast[j]) \/ OnlyEnd(chg_rast[j])
          /\ OnlyStart(chg_rast[k]) \/ OnlyEnd(chg_rast[k])
          /\ tmp_tab[j].reclass = tmp_tab[k].reclass )
        => /\ OnlyStart(chg_rast[j]) <=> OnlyStart(chg_rast[k])
           /\ OnlyStart(chg_rast[j]) =>
                chg_rast[j].end_class = chg_rast[k].end_class
           /\ OnlyEnd(chg_rast[j]) =>
                chg_rast[j].start_class = chg_rast[k].start_class
           /\ tmp_tab[j].change_type = tmp_tab[k].change_type

\* C8: the list of combinations has exactly N*M entries, one for each
\* (start, end) pair of classes, and no two entries have the same code.
C8_Exhaustive ==
    pc # "start" =>
      /\ Len(cls) = Len(nlcd_t1) * Len(nlcd_t2)
      /\ \A p \in ClassPairs :
           Cardinality({ k \in 1..Len(cls) :
                           cls[k][2][1] = p[1] /\ cls[k][3][1] = p[2] }) = 1
      /\ \A j, k \in 1..Len(cls) : cls[j][1] = cls[k][1] => j = k

\* C9: no combined code is produced for a class value that is negative
\* or 100 and above: change_rast fails instead.
C9_DomainError ==
    pc # "start" =>
      /\ \A k \in 1..Len(cls) : InRange(cls[k][2][1]) /\ InRange(cls[k][3][1])
      /\ \A k \in 1..Len(chg_rast) :
           InRange(chg_rast[k].start_class) /\ InRange(chg_rast[k].end_class)

\* C10: change_summary called with start_cls and end_cls that share a value
\* fails and produces no classification.
C10_DisjointLists ==
    (Range(start_cls) \cap Range(end_cls) # {}) =>
      /\ pc # "summarized"
      /\ \A k \in 1..Len(tmp_tab) : tmp_tab[k].reclass = NULL

\* C18: the label of output class 4 follows the backwards flag alone: end
\* name to start name when the flag is true, non-start class to start name
\* when it is false; and every class value 0..5 has a label under both
\* values of the flag.
C18_LabelByFlag ==
    /\ \A v \in 0..5 : \A bw \in BOOLEAN :
         /\ fn(v, start_cls_nm, end_cls_nm, bw) # "None"
         /\ fn(v, start_cls_nm, end_cls_nm, bw) # ""
    /\ pc = "summarized" =>
         \A k \in 1..Len(out_rast) :
            /\ out_rast[k].class # "None"
            /\ out_rast[k].Value = 4 =>
                 out_rast[k].class =
                    IF backwards THEN end_cls_nm \o " to " \o start_cls_nm
                    ELSE "non-" \o start_cls_nm \o " class to " \o start_cls_nm

\* a backwards summary whose output holds class 4
C18_Witness ==
    /\ pc = "summarized"
    /\ backwards
    /\ \E k \in 1..Len(out_rast) : out_rast[k].Value = 4

\* C19: change_summary and change_to_from leave the attribute rows of the
\* change raster as they found them: the relabelled rows are those of the
\* temporary table only.  (Their steps are the ones that end in
\* "summarized", "collapsed" or "ValueError".)
C19_RasterRowsKept ==
    [][pc' \in {"summarized", "collapsed", "ValueError"} => chg_rast' = chg_rast]_vars

\* a collapse has relabelled a row of the temporary table
C19_Witness ==
    /\ pc = "collapsed"
    /\ \E k \in 1..Len(tmp_tab) :
         /\ tmp_tab[k].start_class # chg_rast[k].start_class
         /\ tmp_tab[k].change_type # chg_rast[k].change_type

\* C20: change_rast writes the change_type "No change" on exactly the rows
\* whose start_class equals their end_class, and on every other row the
\* start class name, " to ", and the end class name.
C20_NoChangeLabel ==
    \A k \in 1..Len(chg_rast) :
       chg_rast[k].start_class # NULL =>
          /\ chg_rast[k].change_type = "No change"
                <=> chg_rast[k].start_class = chg_rast[k].end_class
          /\ chg_rast[k].start_class # chg_rast[k].end_class =>
                chg_rast[k].change_type =
                   chg_rast[k].start_class_name \o " to " \o chg_rast[k].end_class_name

\* a change raster with an unchanged row and a changed row
C20_Witness ==
    /\ pc = "changed"
    /\ \E j, k \in 1..Len(chg_rast) :
         /\ chg_rast[j].start_class = chg_rast[j].end_class
         /\ chg_rast[j].change_type = "No change"
         /\ chg_rast[k].start_class # chg_rast[k].end_class

----------------------------------------------------------------------------
(* Properties of the statistics, checked under SpecStats *)

\* the sum of the numerators of a Float field over the rows of a table
RECURSIVE SumNumerators(_, _)
SumNumerators(tab, field) ==
    IF Len(tab) = 0 THEN 0 ELSE tab[1][field][1] + SumNumerators(Tail(tab), field)

\* the rows of a table summed by hand
CountSum(tab, rows) == SumOver([k \in 1..Len(tab) |-> tab[k].Count], rows)

\* every row's percentage is Count / (sum of Count over the table) * 100
PercentOfTable(tab, field) ==
    /\ \A k \in 1..Len(tab) :
         /\ tab[k][field] # NullFloat
         /\ tab[k][field][2] > 0
         /\ tab[k][field][1] * CountSum(tab, 1..Len(tab))
              = tab[k].Count * 100 * tab[k][field][2]
    /\ Len(tab) > 0 =>
         \* over the common denominator the percentages add up to 100
         /\ \A k \in 1..Len(tab) : tab[k][field][2] = tab[1][field][2]
         /\ SumNumerators(tab, field) = 100 * tab[1][field][2]

\* a table of three rows with the counts 10, 30 and 60, the row with 30 at 30.0
TenThirtySixty(tab, field) ==
    /\ Len(tab) = 3
    /\ { tab[k].Count : k \in 1..3 } = {10, 30, 60}
    /\ \E k \in 1..3 : /\ tab[k].Count = 30
                        /\ tab[k][field][1] = 30 * tab[k][field][2]

\* C11: a summary none of whose output rows has a class in {1, 2, 3} (the
\* subset pixel total is zero) does not complete: change_summary raises an
\* error instead of returning the output raster.
C11_ZeroSubsetRaises ==
    ~ /\ pc = "summarized"
      /\ \A k \in 1..Len(out_rast) : out_rast[k].Value \notin {1, 2, 3}

\* C15: on every row of the tables of change_rast, change_summary and
\* change_to_from, area_ha is Count times the cell area of the processed
\* raster (the square of its cell size) divided by 10000.
C15_AreaByCellSize ==
    /\ \A k \in 1..Len(chg_rast) :
         chg_rast[k].area_ha # NullFloat =>
            chg_rast[k].area_ha[1] * 10000
              = chg_rast[k].Count * cellSize * cellSize * chg_rast[k].area_ha[2]
    /\ \A k \in 1..Len(out_rast) :
         out_rast[k].area_ha[1] * 10000
           = out_rast[k].Count * cellSize * cellSize * out_rast[k].area_ha[2]

\* C16: on every row of the table of change_rast (perc_total) and of
\* change_to_from (perc_area) the percentage is Count divided by the sum of
\* Count over that table, times 100, so the percentages of a table add up
\* to 100.
C16_PercentOfTotal ==
    /\ pc = "changed" => PercentOfTable(chg_rast, "perc_total")
    /\ pc = "collapsed" => PercentOfTable(out_rast, "perc_area")

\* change_to_from has run on a change raster with the counts 10, 30, 60,
\* and its output has several rows
C16_Witness ==
    /\ pc = "collapsed"
    /\ TenThirtySixty(chg_rast, "perc_total")
    /\ Len(out_rast) > 1

\* C17: in the output of change_summary a row with Value in {1, 2, 3} has
\* perc_of_t1_area = Count / (sum of Count over the rows with Value in
\* {1, 2, 3}) * 100, and a row with Value 0, 4 or 5 has no value.
C17_PercentOfSubset ==
    pc = "summarized" =>
       \A k \in 1..Len(out_rast) :
          IF out_rast[k].Value \in {1, 2, 3}
          THEN out_rast[k].perc_of_t1_area =
                 <<out_rast[k].Count * 100,
                   CountSum(out_rast, { j \in 1..Len(out_rast) :
                                          out_rast[j].Value \in {1, 2, 3} })>>
          ELSE out_rast[k].perc_of_t1_area = NullFloat

\* a summary with two rows of different counts inside the subset and a
\* row outside it
C17_Witness ==
    /\ pc = "summarized"
    /\ \E i, j, k \in 1..Len(out_rast) :
         /\ out_rast[i].Value \in {1, 2, 3}
         /\ out_rast[j].Value \in {1, 2, 3}
         /\ out_rast[i].Count # out_rast[j].Count
         /\ out_rast[k].Value \in {0, 4, 5}
         /\ out_rast[k].Count > 0

----------------------------------------------------------------------------
(* Properties of failures and restarts, checked under SpecRetry *)

\* the row has all the fields change_rast calculates
Populated(r) ==
    /\ r.start_class # NULL
    /\ r.end_class # NULL
    /\ r.change_type # NullText
    /\ r.area_ha # NullFloat
    /\ r.perc_total # NullFloat

\* the combined code has an entry in the list of class combinations
HasEntry(value) == \E i \in 1..Len(cls) : cls[i][1] = value

\* C12: a classification function does not complete on a change raster
\* whose attribute table holds a combined code without an entry in the
\* list of class combinations: change_rast, change_summary and
\* change_to_from stop with an error for that code.
C12_UnknownCodeRaises ==
    pc \in {"changed", "summarized", "collapsed"} =>
       \A k \in 1..Len(chg_rast) : HasEntry(chg_rast[k].Value)

\* C13: after a failed step the product is complete or absent: a change
\* raster left by a change_rast that stopped has all its fields calculated
\* on every row, and a stopped change_to_from leaves no half-updated table.
C13_CompleteOrAbsent ==
    /\ pc \in {"IndexError", "ExecuteError"} =>
         \/ ~Exists(chg_rast)
         \/ \A k \in 1..Len(chg_rast) : Populated(chg_rast[k])
    /\ pc = "ValueError" =>
         \/ ~Exists(tmp_tab)
         \/ \A k \in 1..Len(tmp_tab) : tmp_tab[k].reclass # NULL

\* C14: the restarted year-pair loop never goes on to change_summary with
\* the change raster of a failed change_rast: a raster it reuses has every
\* field calculated on every row.
C14_PartialRasterRebuilt ==
    pc = "reused" => \A k \in 1..Len(chg_rast) : Populated(chg_rast[k])

----------------------------------------------------------------------------
(* Further properties of the three functions, checked under Spec *)

\* C21: the entry the linear scan of change_rast takes for a row, the first
\* of the list with the row's code, is the entry a map from code to entry
\* holds for that code: every entry of the list with that code names the
\* same start and end class, also when two pairs share a code.
C21_ScanEqualsMap ==
    pc = "changed" =>
       \A k \in 1..Len(chg_rast) : \A i \in 1..Len(cls) :
          cls[i][1] = chg_rast[k].Value =>
             /\ cls[i][2][1] = chg_rast[k].start_class
             /\ cls[i][3][1] = chg_rast[k].end_class

\* C22: in change_summary the class group follows membership in start_cls
\* alone, for disjoint and for overlapping lists: class 1, 2 or 3 exactly
\* when start_class is in start_cls, class 4 or 5 exactly when start_class
\* is not and end_class is, class 0 exactly when neither is.
C22_GroupByStartSet ==
    pc = "summarized" =>
       \A k \in 1..Len(tmp_tab) :
          LET sc == tmp_tab[k].start_class
              ec == tmp_tab[k].end_class
              c  == tmp_tab[k].reclass
          IN  /\ c \in {1, 2, 3} <=> In(sc, start_cls)
              /\ c \in {4, 5} <=> (~In(sc, start_cls) /\ In(ec, start_cls))
              /\ c = 0 <=> (~In(sc, start_cls) /\ ~In(ec, start_cls))

\* a summary with overlapping lists whose rows fall in all three groups,
\* one of them starting in a class of both lists
C22_Witness ==
    /\ pc = "summarized"
    /\ Range(start_cls) \cap Range(end_cls) # {}
    /\ \E i, j, k \in 1..Len(tmp_tab) :
         /\ tmp_tab[i].reclass \in {1, 2, 3}
         /\ In(tmp_tab[i].start_class, end_cls)
         /\ tmp_tab[j].reclass \in {4, 5}
         /\ tmp_tab[k].reclass = 0

\* C29: in change_to_from, with all class values in 0..99, the reserved
\* codes keep their meaning: a row with exactly one of its classes in
\* start_cls never gets the code 0 or 1.
C29_ReservedCodes ==
    ( /\ pc = "collapsed"
      /\ \A q \in ClassPairs : InRange(q[1]) /\ InRange(q[2])
      /\ \A i \in 1..Len(start_cls) : InRange(start_cls[i]) ) =>
      \A k \in 1..Len(tmp_tab) :
         (OnlyStart(chg_rast[k]) \/ OnlyEnd(chg_rast[k])) =>
            tmp_tab[k].reclass \notin {0, 1}

----------------------------------------------------------------------------
(* Properties of Helper.CleanFeatures, checked under SpecClean *)

\* the output was written by a successful MultipartToSinglepart
Exploded == outFeats # <<>> /\ outFeats[1] = "MultipartToSinglepart"

\* at most 10 attempts and one copy; the copy only after 10 failed attempts,
\* of the unexploded input; no copy beside a successful attempt; an output
\* whenever the function has returned
CleanFeaturesBounds ==
    /\ attempts <= 10
    /\ copies <= 1
    /\ copies = 1 => /\ attempts = 10
                     /\ outFeats = <<"CopyFeatures", inFeats>>
    /\ Exploded => copies = 0
    /\ cleanPc = "returned" => outFeats # <<>>

\* C23: CleanFeatures always terminates, by returning or by an exception;
\* MultipartToSinglepart is attempted at most 10 times; after the first
\* successful attempt there is no further attempt and no copy; after 10
\* failed attempts the input is copied unexploded, once; outFeats exists
\* whenever the function returns.
C23_CleanFeaturesTerminates ==
    /\ []CleanFeaturesBounds
    /\ [][Exploded => /\ attempts' = attempts
                      /\ copies' = copies
                      /\ outFeats' = outFeats]_vars
    /\ <>(cleanPc \in {"returned", "raised"})

\* the function has returned after ten failed attempts and one copy
C23_Witness ==
    /\ cleanPc = "returned"
    /\ attempts = 10
    /\ copies = 1
    /\ outFeats[1] = "CopyFeatures"

----------------------------------------------------------------------------
(* Properties of clipNLCD.main, checked under SpecClip *)

\* no step removes a .zip file
ZipsKept == \A f \in folder : f.ext = "zip" => f \in folder'

\* a zip whose clipped output exists is passed over: nothing is extracted,
\* clipped or deleted
ExistingSkipped ==
    (clipPc = "next" /\ zfiles # <<>> /\ CurrentOut \in gdb) =>
        /\ folder' = folder
        /\ gdb' = gdb
        /\ zfiles' = Tail(zfiles)
        /\ clipPc' = "next"

\* files appear only by extracting the current zip while its raster is
\* absent and its output not yet clipped
ExtractedIfAbsent ==
    folder' \ folder # {} =>
        /\ Img(Base(zfiles[1])) \notin folder
        /\ CurrentOut \notin gdb
        /\ folder' = folder \cup ZipMembers(Base(zfiles[1]))

\* an output appears only as the clip of the current zip, whose raster is
\* in the folder
ClippedAfterExtract ==
    gdb' # gdb =>
        /\ gdb' = gdb \cup {CurrentOut}
        /\ Img(Base(zfiles[1])) \in folder
        /\ folder' = folder

\* files disappear only after the clip of their zip has finished, and they
\* are extracted files of the current zip
RemovedAfterClip ==
    \A f \in folder \ folder' :
        /\ f.ext # "zip"
        /\ StartsWith(f, Base(zfiles[1]))
        /\ ClippedName(f) \in gdb

\* the removal leaves no extracted file of the base behind
AllRemoved ==
    (clipPc = "remove" /\ clipPc' = "next") =>
        \A f \in folder' : StartsWith(f, Base(zfiles[1])) => f.ext = "zip"

----------------------------------------------------------------------------
(* Properties of LandscapeChange.main, checked under SpecMain *)

\* the position of a year in nlcd_rasts
YearIndex(year) == CHOOSE k \in 1..Len(nlcd_rasts) : nlcd_rasts[k] = year

\* every call made so far reclassifies the first year against the 1992
\* raster with schema '1992' and a later year against the rclsBarrens
\* output of the year before it in the list
ChainOfReferences ==
    \A i \in 1..Len(calls) :
       LET k == YearIndex(calls[i].inRast)
       IN  /\ calls[i].outRast = BarrensName(calls[i].inRast)
           /\ IF k = 1
              THEN calls[i].ref = nlcd_1992 /\ calls[i].schema = "1992"
              ELSE calls[i].ref = BarrensName(nlcd_rasts[k - 1])

\* a call is made only for an output that does not exist, with a reference
\* that exists
CalledWhenMissing ==
    calls' # calls =>
        /\ calls' = Append(calls, calls'[Len(calls')])
        /\ calls'[Len(calls')].outRast \notin out_gdb
        /\ calls'[Len(calls')].ref \in out_gdb

\* C27: in LandscapeChange.main the first year is reclassified against the
\* 1992 raster with schema '1992' and every later year against the
\* rclsBarrens output of the year before it in the list, which exists when
\* it is used as reference; an output that exists is never rebuilt.
C27_BarrenChain ==
    /\ []ChainOfReferences
    /\ [][CalledWhenMissing]_vars
    /\ [][\A r \in out_gdb : r \in out_gdb']_vars

\* the loop is over; the second year was rebuilt against the output of the
\* first, which an earlier run had left, and the third was left as found
C27_Witness ==
    /\ mainPc = "summary"
    /\ Len(nlcd_rasts) >= 3
    /\ Len(calls) = 1
    /\ calls[1].inRast = nlcd_rasts[2]
    /\ calls[1].ref = BarrensName(nlcd_rasts[1])

----------------------------------------------------------------------------
(* Properties of LandscapeChange.tabLcTypes, checked under SpecTab *)

\* the number of rasters the loop has processed
Processed ==
    IF tabPc = "loop" THEN tab_c
    ELSE IF tabPc \in {"finished", "ExecuteError"} THEN Len(rasterList)
    ELSE 0

\* the year of the k-th raster, as text and as a number
YearText(k) == YearOf(rasterList[k].name)
YearNumber(k) == int(YearText(k))

\* whether the k-th raster has cells of a class, and their Count
HasClass(k, v) == v \in DOMAIN rasterList[k].tab
CountIn(k, v) == rasterList[k].tab[v][CountFld]

\* the chronologically earliest and latest of the rasters
Earliest ==
    CHOOSE k \in 1..Len(rasterList) :
        \A j \in 1..Len(rasterList) : YearNumber(k) <= YearNumber(j)
Latest ==
    CHOOSE k \in 1..Len(rasterList) :
        \A j \in 1..Len(rasterList) : YearNumber(j) <= YearNumber(k)

\* C24: when tabLcTypes has finished, Change_ha, Change_ac and Change_perc
\* of every row are the change from the chronologically earliest to the
\* latest year among the rasters, whatever the order of rasterList.
C24_ChangeEarliestToLatest ==
    tabPc = "finished" =>
        \A v \in DOMAIN sumTab :
           LET cs == CountIn(Earliest, v)
               ce == CountIn(Latest, v)
           IN  IF ~HasClass(Earliest, v) \/ ~HasClass(Latest, v)
               THEN /\ sumTab[v][ChangeHa] = NullFloat
                    /\ sumTab[v][ChangeAc] = NullFloat
                    /\ sumTab[v][ChangePerc] = NullFloat
               ELSE /\ RatEq(sumTab[v][ChangeHa], <<(ce - cs) * 9, 100>>)
                    /\ sumTab[v][ChangeAc] = <<ce - cs, AcPerCell>>
                    /\ RatEq(sumTab[v][ChangePerc], <<100 * (ce - cs), cs>>)

\* three rasters given latest first and earliest second, with a class
\* whose area has grown
C24_Witness ==
    /\ tabPc = "finished"
    /\ Len(rasterList) = 3
    /\ Latest = 1
    /\ Earliest = 2
    /\ \E v \in DOMAIN sumTab :
          /\ sumTab[v][ChangeHa] # NullFloat
          /\ sumTab[v][ChangeHa][1] > 0

\* C28: the total pixel count is that of the first raster processed and is
\* the denominator of the Percent field of every raster processed; the rows
\* of the summary table are the Value rows of the first raster, each later
\* raster adding its columns by a join on Value.
C28_TotalReadOnce ==
    Processed >= 1 =>
        LET first == rasterList[1].tab
        IN  /\ tab_sum = CountTotal(first)
            /\ DOMAIN sumTab = DOMAIN first
            /\ \A k \in 1..Processed :
                  LET tab  == rasterList[k].tab
                      perc == percFld(YearText(k))
                  IN  /\ \A v \in DOMAIN tab :
                            tab[v][perc] =
                                <<100 * tab[v][CountFld], CountTotal(first)>>
                      /\ \A v \in DOMAIN sumTab :
                            sumTab[v][perc] =
                                IF v \in DOMAIN tab
                                THEN tab[v][perc] ELSE NullFloat

\* a second raster with another total and other classes than the first
\* has been processed
C28_Witness ==
    /\ Processed >= 2
    /\ CountTotal([v \in DOMAIN rasterList[2].tab |->
                      (CountFld :> rasterList[2].tab[v][CountFld])])
          # tab_sum
    /\ DOMAIN rasterList[2].tab # DOMAIN rasterList[1].tab

----------------------------------------------------------------------------
(* Properties of LandscapeChange.reclassBarren, checked under SpecBarren *)

\* C25: reclassBarren keeps the class of every cell that is not 31; a cell
\* of class 31 becomes 31 if the reference cell is 31, else 32 if the
\* reference cell is 32, else 32 if a reference cell of class 32 is less
\* than 100 m away, else 31 or 32, whichever the likeliest transition is.
C25_BarrenSplit ==
    barPc = "finished" =>
        \A p \in Cells(inRast) :
           IF inRast[p] # 31 THEN outBarren[p] = inRast[p]
           ELSE IF refRast[p] = 31 THEN outBarren[p] = 31
           ELSE IF refRast[p] = 32 THEN outBarren[p] = 32
           ELSE IF \E q \in Cells(refRast) :
                      /\ refRast[q] = 32
                      /\ (q - p) * EucCellSize < 100
                      /\ (p - q) * EucCellSize < 100
                THEN outBarren[p] = 32
           ELSE outBarren[p] \in {31, 32}

====
